---------------------------- MODULE Spec2Model ----------------------------
(***************************************************************************)
(* Robin Accountant: the dialogue engine of functions/src/robin.ts.        *)
(*                                                                         *)
(* One turn is one call of Robin.process: the durable context of the       *)
(* session is copied, the NLU payload is awaited and normalised into the   *)
(* ephemeral facts, and RobinLogic.transition runs the rule table through  *)
(* RobinLogic.execute, one execute call per step, until a rule ends the    *)
(* turn.  The caller then stores the returned context for the next turn.   *)
(***************************************************************************)
EXTENDS Integers, Sequences, FiniteSets, TLC

VARIABLES
    now,        \* wall clock (DateTime.local()), in minutes
    session,    \* session.context, the durable context the caller holds
    pc,         \* position of the process call
    context,    \* the working copy made by process (RobinLogic.context)
    ephemeral,  \* the per-turn facts (RobinLogic.ephemeral)
    messages,   \* RobinLogic.messages
    actions,    \* RobinLogic.actions
    cur,        \* argument of the pending execute call
    rule,       \* the rule suspended in queryExpenses, "" if none
    query,      \* the interval of the outstanding queryExpenses call
    error,      \* why process rejected, "" if it has not
    tried,      \* the rules tried in this turn ("SM trying <state>.<rule>")
    warned,     \* "SM is out of options" was logged in this turn
    epsilons,   \* epsilon transitions taken so far in this turn
    nlu,        \* the NLU payload of the call (RobinLogic.wit), None before
    answers,    \* what queryExpenses answered in this turn, in order
    other       \* a second process call of the same user, while it waits

vars == <<now, session, pc, context, ephemeral, messages, actions, cur,
          rule, query, error, tried, warned, epsilons, nlu, answers, other>>

---------------------------------------------------------------------------
(* Bounds of the model *)

MaxTurns == 3       \* turns per behaviour (messageCounter stops there)
LiveTurns == 2      \* turns per behaviour where termination is checked
MaxNow == 4         \* the clock stops there
TickMinutes == 2    \* the clock advances in steps of that many minutes
MaxEpsilons == 6    \* the epsilon count saturates there
MaxEntities == 3    \* entities in one payload given to the normaliser alone

---------------------------------------------------------------------------
(* Optional values: undefined is <<>>, a present value v is <<v>> *)

None == <<>>
Some(v) == <<v>>

\* JavaScript truthiness of an optional string / number / object
TruthyStr(o) == o # None /\ o[1] # ""
TruthyNum(o) == o # None /\ o[1] # 0
TruthyObj(o) == o # None

Min(a, b) == IF a < b THEN a ELSE b

---------------------------------------------------------------------------
(* The message catalog (./messages).  A message is the catalog key it was  *)
(* drawn from and the variables interpolated into it; the random choice of *)
(* a variant of a key is not modelled.                                     *)

JokeLength == 2     \* ROBIN_MESSAGES.joke.length

NoVars == <<>>
any(key, msgVars) == [key |-> key, vars |-> msgVars]

\* joke.get(index, fallback): the index-th joke, the fallback past the end
get(index, fallback) ==
    IF index >= 0 /\ index < JokeLength
    THEN [key |-> "joke", vars |-> [index |-> index]]
    ELSE fallback

---------------------------------------------------------------------------
(* luxon: a DateTime is a number of minutes, an ISO string is a tagged     *)
(* copy of it, an Interval a pair of DateTimes; startOf/endOf are kept     *)
(* symbolic.                                                               *)

Iso(t) == [iso |-> t]
fromISO(s) == s.iso
fromDateTimes(a, b) == [start |-> a, end |-> b]
startOf(t, grain) == [of |-> "start", grain |-> grain, t |-> t]
endOf(t, grain) == [of |-> "end", grain |-> grain, t |-> t]

\* this.diffNow("minutes").minutes: this minus now
diffNow(t) == t - now

---------------------------------------------------------------------------
(* Durable context *)

UnknownState == "limbo"    \* a state name that is no key of the rule table
\* State names that are no key of the rule table but properties the table,
\* an object literal, inherits from Object.prototype: this.states[name] is
\* then a function, which is truthy and not iterable.
Inherited == {"toString"}

defaultContext ==
    [ state |-> "init",
      isActive |-> TRUE,
      userName |-> "",
      lastMessageOn |-> now,
      messageCounter |-> 0,
      lastGreetingOn |-> 0,
      jokeCounter |-> 0,
      lastJokeOn |-> 0,
      budget |-> 500,
      currentExpenseItem |-> None,
      currentExpenseValue |-> None,
      currentExpenseIncurredOn |-> None ]

\* Object.assign({}, session.context): a shallow copy; every field is a
\* primitive or an immutable DateTime, so the copy shares nothing mutable
CopyContext(c) == [f \in DOMAIN c |-> c[f]]

NoContext == [state |-> ""]

---------------------------------------------------------------------------
(* Ephemeral facts and the normaliser (processTraits, processIntents,      *)
(* processEntities)                                                        *)

Scaffold ==
    [ greetings |-> FALSE, bye |-> FALSE, thanks |-> FALSE,
      sentiment |-> "neutral", intent |-> "",
      item |-> None, money |-> None, moment |-> None, interval |-> None ]

\* A trait of the payload is undefined, an object with a confidence, or,
\* as processTraits reads wit$sentiment, an array of such objects.
Undefined == [shape |-> "undefined"]
TraitObject(confidence) ==
    [shape |-> "object", confidence |-> confidence, value |-> "true"]
TraitArray(confidence) ==
    [shape |-> "array", items |-> <<[confidence |-> confidence, value |-> "true"]>>]

\* !!trait
Present(trait) == trait.shape # "undefined"
\* trait.confidence: a property only an object has, undefined on an array
confidenceOf(trait) ==
    IF trait.shape = "object" THEN Some(trait.confidence) ELSE None
\* a > b in JavaScript: false when either side is undefined
Greater(a, b) == a # None /\ b # None /\ a[1] > b[1]

processTraits(wit, e) ==
    LET thanks == Present(wit.traits.thanks)
        greetings == Present(wit.traits.greetings)
        bye == Present(wit.traits.bye)
        both == greetings /\ bye
        keepGreetings ==
            both /\ Greater(confidenceOf(wit.traits.greetings),
                            confidenceOf(wit.traits.bye))
    IN  [e EXCEPT
            !.thanks = thanks,
            !.greetings = IF both THEN keepGreetings ELSE greetings,
            !.bye = IF both THEN ~keepGreetings ELSE bye,
            !.sentiment = IF wit.traits.sentiment # <<>>
                          THEN wit.traits.sentiment[1].value ELSE @]

processIntents(wit, e) ==
    [e EXCEPT !.intent = IF wit.intents # <<>> THEN wit.intents[1].name ELSE ""]

\* Object.values(wit.entities).reduce(...): the groups concatenated in order
RECURSIVE Flatten(_)
Flatten(groups) ==
    IF groups = <<>> THEN <<>> ELSE Head(groups) \o Flatten(Tail(groups))

\* an iteration where an amount of money, too, yields to a money fact set
\* before it
processEntity_first_money_wins(entity, e) ==
    CASE entity.name = "item" ->
            IF entity.type = "value" THEN [e EXCEPT !.item = Some(entity.value)] ELSE e
      [] entity.name \in {"wit$amount_of_money", "wit$number"} ->
            IF entity.type = "value" /\ ~TruthyObj(e.money)
            THEN [e EXCEPT !.money = Some([body |-> entity.body, value |-> entity.value])]
            ELSE e
      [] entity.name = "wit$datetime" ->
            IF entity.type = "value"
            THEN [e EXCEPT !.moment =
                     Some([grain |-> entity.grain, value |-> fromISO(entity.value)])]
            ELSE IF entity.typeCheck = "interval"
            THEN [e EXCEPT !.interval =
                     Some([grain |-> entity.grain,
                           value |-> fromDateTimes(fromISO(entity.from), fromISO(entity.to))])]
            ELSE e
      [] OTHER -> e

\* one iteration of the for loop over the flattened entities
processEntity(entity, e) ==
    CASE entity.name = "item" ->
            IF entity.type = "value" THEN [e EXCEPT !.item = Some(entity.value)] ELSE e
      [] entity.name = "wit$amount_of_money" ->
            IF entity.type = "value"
            THEN [e EXCEPT !.money = Some([body |-> entity.body, value |-> entity.value])]
            ELSE e
      [] entity.name = "wit$number" ->
            IF entity.type = "value" /\ ~TruthyObj(e.money)
            THEN [e EXCEPT !.money = Some([body |-> entity.body, value |-> entity.value])]
            ELSE e
      [] entity.name = "wit$datetime" ->
            IF entity.type = "value"
            THEN [e EXCEPT !.moment =
                     Some([grain |-> entity.grain, value |-> fromISO(entity.value)])]
            ELSE IF entity.typeCheck = "interval"
            THEN [e EXCEPT !.interval =
                     Some([grain |-> entity.grain,
                           value |-> fromDateTimes(fromISO(entity.from), fromISO(entity.to))])]
            ELSE e
      [] OTHER -> e

RECURSIVE processEntityList(_, _)
processEntityList(entities, e) ==
    IF entities = <<>> THEN e
    ELSE processEntityList(Tail(entities), processEntity(Head(entities), e))

\* processEntities that takes the groups of wit.entities from the last to
\* the first
processEntities_groups_reversed(wit, e) ==
    LET groups == wit.entities
        reversed == [i \in 1..Len(groups) |-> groups[Len(groups) + 1 - i]]
    IN  processEntityList(Flatten(reversed), e)

processEntities(wit, e) == processEntityList(Flatten(wit.entities), e)

---------------------------------------------------------------------------
(* RobinLogic: the rule table.  A rule works on L = [context, messages,    *)
(* actions] and the facts e, and returns its directive next[0], its tag    *)
(* next[1] and the L it leaves.                                            *)

\* directives: "" is Decline, "s" is Goto(s), "s!" is Eps(s)
Decline == [to |-> "", bang |-> FALSE]
Goto(s) == [to |-> s, bang |-> FALSE]
Eps(s) == [to |-> s, bang |-> TRUE]
endsWithBang(d) == d.bang
sliceBang(d) == d.to

say(L, message) == [L EXCEPT !.messages = Append(@, message)]
action(L, a) == [L EXCEPT !.actions = Append(@, a)]

Ret(d, tag, L) == [next |-> d, tag |-> tag, L |-> L]

sayHi(L) ==
    IF L.context.userName # ""
    THEN say(L, any("personalGreeting", [name |-> L.context.userName]))
    ELSE say(L, any("genericGreeting", NoVars))

sayWelcome(L) == say(L, any("welcome", NoVars))

\* sayJoke without the cap of the counter
sayJokeUncapped(L) ==
    LET told == say(L, get(L.context.jokeCounter, any("doneJoking", NoVars)))
    IN  [told EXCEPT
            !.context.jokeCounter = L.context.jokeCounter + 1,
            !.context.lastJokeOn = now]

sayJoke(L) ==
    LET told == say(L, get(L.context.jokeCounter, any("doneJoking", NoVars)))
    IN  [told EXCEPT
            !.context.jokeCounter = Min(L.context.jokeCounter + 1, JokeLength),
            !.context.lastJokeOn = now]

timeout(L, minutes) == diffNow(L.context.lastMessageOn) > minutes

\* first_interaction that ends the turn in main
init_first_interaction_rests(L, e) == Ret(Goto("main"), "", sayWelcome(sayHi(L)))

init_first_interaction(L, e) == Ret(Eps("main"), "", sayWelcome(sayHi(L)))

main_request_help(L, e) ==
    IF e.intent # "request_help" THEN Ret(Decline, "", L)
    ELSE Ret(Goto("main"), "", say(L, any("help", NoVars)))

main_tell_joke(L, e) ==
    IF e.intent # "tell_joke" THEN Ret(Decline, "", L)
    ELSE Ret(Goto("main"), "", sayJoke(L))

main_who_are_you(L, e) ==
    IF e.intent # "who_are_you" THEN Ret(Decline, "", L)
    ELSE Ret(Goto("main"), "", say(L, any("introduction", NoVars)))

main_are_you_bot(L, e) ==
    IF e.intent # "are_you_bot" THEN Ret(Decline, "", L)
    ELSE Ret(Goto("main"), "", say(L, any("bot", NoVars)))

main_delete_account(L, e) ==
    IF e.intent # "delete_account" THEN Ret(Decline, "", L)
    ELSE Ret(Goto("delete_account"), "", say(L, any("deleteAccountConfirmation", NoVars)))

\* main.set_budget that enters the budget flow only with an amount
main_set_budget_needs_money(L, e) ==
    IF e.intent # "set_budget" \/ ~TruthyObj(e.money) THEN Ret(Decline, "", L)
    ELSE Ret(Eps("set_budget"), "", L)

main_set_budget(L, e) ==
    IF e.intent # "set_budget" THEN Ret(Decline, "", L)
    ELSE Ret(Eps("set_budget"), "", L)

\* main.add_expense that forgets to reset the value slot
main_add_expense_keeps_value(L, e) ==
    IF e.intent # "add_expense" THEN Ret(Decline, "", L)
    ELSE LET cleared == [L EXCEPT !.context.currentExpenseItem = None,
                                  !.context.currentExpenseIncurredOn = None]
         IN  IF /\ ~TruthyStr(e.item)
                /\ ~TruthyObj(e.interval)
                /\ ~TruthyObj(e.moment)
                /\ ~TruthyObj(e.money)
             THEN Ret(Eps("add_expense"), "", say(cleared, any("addExpense", NoVars)))
             ELSE Ret(Eps("add_expense"), "", cleared)

main_add_expense(L, e) ==
    IF e.intent # "add_expense" THEN Ret(Decline, "", L)
    ELSE LET cleared == [L EXCEPT !.context.currentExpenseItem = None,
                                  !.context.currentExpenseIncurredOn = None,
                                  !.context.currentExpenseValue = None]
         IN  IF /\ ~TruthyStr(e.item)
                /\ ~TruthyObj(e.interval)
                /\ ~TruthyObj(e.moment)
                /\ ~TruthyObj(e.money)
             THEN Ret(Eps("add_expense"), "", say(cleared, any("addExpense", NoVars)))
             ELSE Ret(Eps("add_expense"), "", cleared)

\* main.confused that answers a greeting before it answers thanks
main_confused_hi_first(L, e) ==
    IF Len(L.messages) = 0
    THEN IF e.greetings THEN Ret(Goto("main"), "", say(L, any("hi", NoVars)))
         ELSE IF e.thanks THEN Ret(Goto("main"), "", say(L, any("thanks", NoVars)))
         ELSE IF e.bye
              THEN Ret(Goto("main"), "", say(L, any("bye", [name |-> L.context.userName])))
         ELSE Ret(Goto("main"), "", say(L, any("confused", NoVars)))
    ELSE Ret(Goto("main"), "", L)

main_confused(L, e) ==
    IF Len(L.messages) = 0
    THEN IF e.thanks THEN Ret(Goto("main"), "", say(L, any("thanks", NoVars)))
         ELSE IF e.greetings THEN Ret(Goto("main"), "", say(L, any("hi", NoVars)))
         ELSE IF e.bye
              THEN Ret(Goto("main"), "", say(L, any("bye", [name |-> L.context.userName])))
         ELSE Ret(Goto("main"), "", say(L, any("confused", NoVars)))
    ELSE Ret(Goto("main"), "", L)

delete_account_confirmation(L, e) ==
    IF timeout(L, 3) THEN Ret(Goto("main"), "timeout", L)
    ELSE IF e.intent = "feedback_positive"
    THEN Ret(Goto("main"), "positive",
             say([L EXCEPT !.context.isActive = FALSE],
                 any("accountDeletionConfirmed", NoVars)))
    ELSE IF e.intent = "feedback_negative"
    THEN Ret(Goto("main"), "negative", say(L, any("accountDeletionCanceled", NoVars)))
    ELSE Ret(Decline, "confused", say(L, any("confused", NoVars)))

\* set_budget.set_budget that declines without its prompt
set_budget_set_budget_silent(L, e) ==
    IF ~TruthyObj(e.money)
    THEN Ret(Decline, "", L)
    ELSE Ret(Goto("main"), "",
             say([L EXCEPT !.context.budget = e.money[1].value],
                 any("settingBudget", [value |-> e.money[1].value])))

set_budget_set_budget(L, e) ==
    IF ~TruthyObj(e.money)
    THEN Ret(Decline, "", say(L, any("specifyBudget", NoVars)))
    ELSE Ret(Goto("main"), "",
             say([L EXCEPT !.context.budget = e.money[1].value],
                 any("settingBudget", [value |-> e.money[1].value])))

\* add_expense.add_expense that takes a missing date to be now instead of
\* asking for it
add_expense_add_expense_today(L, e) ==
    LET c0 == L.context
        c1 == IF TruthyStr(e.item) /\ ~TruthyStr(c0.currentExpenseItem)
              THEN [c0 EXCEPT !.currentExpenseItem = e.item] ELSE c0
        c2 == IF TruthyObj(e.moment) /\ ~TruthyObj(c1.currentExpenseIncurredOn)
              THEN [c1 EXCEPT !.currentExpenseIncurredOn = Some(e.moment[1].value)]
              ELSE IF TruthyObj(e.interval) /\ ~TruthyObj(c1.currentExpenseIncurredOn)
              THEN [c1 EXCEPT !.currentExpenseIncurredOn = Some(e.interval[1].value.start)]
              ELSE c1
        c3 == IF TruthyObj(e.money) /\ ~TruthyNum(c2.currentExpenseValue)
              THEN [c2 EXCEPT !.currentExpenseValue = Some(e.money[1].value)] ELSE c2
        L3 == [L EXCEPT !.context = c3]
        incurredOn == IF TruthyObj(c3.currentExpenseIncurredOn)
                      THEN c3.currentExpenseIncurredOn[1] ELSE now
    IN  IF ~TruthyStr(c3.currentExpenseItem) THEN Ret(Eps("specify_expense_item"), "", L3)
        ELSE IF ~TruthyNum(c3.currentExpenseValue)
        THEN Ret(Eps("specify_expense_value"), "", L3)
        ELSE Ret(Goto("main"), "expense_added",
                 say(action(L3, [type |-> "add_expense",
                                 item |-> c3.currentExpenseItem[1],
                                 value |-> c3.currentExpenseValue[1],
                                 incurredOn |-> incurredOn]),
                     any("expenseCompleted",
                         [item |-> c3.currentExpenseItem[1],
                          value |-> c3.currentExpenseValue[1],
                          moment |-> incurredOn])))

add_expense_add_expense(L, e) ==
    LET c0 == L.context
        c1 == IF TruthyStr(e.item) /\ ~TruthyStr(c0.currentExpenseItem)
              THEN [c0 EXCEPT !.currentExpenseItem = e.item] ELSE c0
        c2 == IF TruthyObj(e.moment) /\ ~TruthyObj(c1.currentExpenseIncurredOn)
              THEN [c1 EXCEPT !.currentExpenseIncurredOn = Some(e.moment[1].value)]
              ELSE IF TruthyObj(e.interval) /\ ~TruthyObj(c1.currentExpenseIncurredOn)
              THEN [c1 EXCEPT !.currentExpenseIncurredOn = Some(e.interval[1].value.start)]
              ELSE c1
        c3 == IF TruthyObj(e.money) /\ ~TruthyNum(c2.currentExpenseValue)
              THEN [c2 EXCEPT !.currentExpenseValue = Some(e.money[1].value)] ELSE c2
        L3 == [L EXCEPT !.context = c3]
    IN  IF ~TruthyStr(c3.currentExpenseItem) THEN Ret(Eps("specify_expense_item"), "", L3)
        ELSE IF ~TruthyObj(c3.currentExpenseIncurredOn)
        THEN Ret(Eps("specify_expense_moment"), "", L3)
        ELSE IF ~TruthyNum(c3.currentExpenseValue)
        THEN Ret(Eps("specify_expense_value"), "", L3)
        ELSE Ret(Goto("main"), "expense_added",
                 say(action(L3, [type |-> "add_expense",
                                 item |-> c3.currentExpenseItem[1],
                                 value |-> c3.currentExpenseValue[1],
                                 incurredOn |-> c3.currentExpenseIncurredOn[1]]),
                     any("expenseCompleted",
                         [item |-> c3.currentExpenseItem[1],
                          value |-> c3.currentExpenseValue[1],
                          moment |-> c3.currentExpenseIncurredOn[1]])))

\* specify_expense_item that goes on to ask for the value
specify_expense_item_then_value(L, e) ==
    IF ~TruthyStr(e.item)
    THEN Ret(Decline, "", say(L, any("specifyExpenseItem", NoVars)))
    ELSE Ret(Eps("specify_expense_value"), "item_specified",
             [L EXCEPT !.context.currentExpenseItem = e.item])

specify_expense_item(L, e) ==
    IF ~TruthyStr(e.item)
    THEN Ret(Decline, "", say(L, any("specifyExpenseItem", NoVars)))
    ELSE Ret(Eps("add_expense"), "item_specified",
             [L EXCEPT !.context.currentExpenseItem = e.item])

\* specify_expense_moment that takes the start of the interval first
specify_expense_moment_interval_first(L, e) ==
    IF ~TruthyObj(e.moment) /\ ~TruthyObj(e.interval)
    THEN Ret(Decline, "", say(L, any("specifyExpenseMoment", NoVars)))
    ELSE IF TruthyObj(e.interval)
    THEN Ret(Eps("add_expense"), "moment_specified",
             [L EXCEPT !.context.currentExpenseIncurredOn = Some(e.interval[1].value.start)])
    ELSE Ret(Eps("add_expense"), "moment_specified",
             [L EXCEPT !.context.currentExpenseIncurredOn = Some(e.moment[1].value)])

specify_expense_moment(L, e) ==
    IF ~TruthyObj(e.moment) /\ ~TruthyObj(e.interval)
    THEN Ret(Decline, "", say(L, any("specifyExpenseMoment", NoVars)))
    ELSE IF TruthyObj(e.moment)
    THEN Ret(Eps("add_expense"), "moment_specified",
             [L EXCEPT !.context.currentExpenseIncurredOn = Some(e.moment[1].value)])
    ELSE Ret(Eps("add_expense"), "moment_specified",
             [L EXCEPT !.context.currentExpenseIncurredOn = Some(e.interval[1].value.start)])

\* specify_expense_value that ends the turn in add_expense
specify_expense_value_rests(L, e) ==
    IF ~TruthyObj(e.money)
    THEN Ret(Decline, "", say(L, any("specifyExpenseValue", NoVars)))
    ELSE Ret(Goto("add_expense"), "value_specified",
             [L EXCEPT !.context.currentExpenseValue = Some(e.money[1].value)])

specify_expense_value(L, e) ==
    IF ~TruthyObj(e.money)
    THEN Ret(Decline, "", say(L, any("specifyExpenseValue", NoVars)))
    ELSE Ret(Eps("add_expense"), "value_specified",
             [L EXCEPT !.context.currentExpenseValue = Some(e.money[1].value)])

---------------------------------------------------------------------------
(* The three rules of main that wait for session.queryExpenses: the        *)
(* interval they ask for, and the rule's continuation on the answer.       *)

thisWeek == fromDateTimes(startOf(now, "week"), endOf(now, "week"))

RECURSIVE SumValues(_)
\* expenses.reduce((p, c) => p + c.value, 0)
SumValues(expenses) ==
    IF expenses = <<>> THEN 0 ELSE Head(expenses).value + SumValues(Tail(expenses))

main_query_budget(L, e, expenses) ==
    LET totalExpenses == SumValues(expenses)
    IN  Ret(Goto("main"), "",
            say(L, any("queryBudget",
                       [value |-> L.context.budget,
                        balance |-> L.context.budget - totalExpenses])))

\* query_affordability reporting the balance before the purchase
main_query_affordability_before(L, e, expenses) ==
    IF e.intent # "query_affordability" THEN Ret(Decline, "", L)
    ELSE IF ~TruthyObj(e.money)
    THEN Ret(Goto("main"), "", say(L, any("specifyAffordabilityValue", NoVars)))
    ELSE Ret(Goto("main"), "",
             say(L, any("queryAffordability",
                        [value |-> e.money[1].value,
                         balance |-> L.context.budget - SumValues(expenses)])))

main_query_affordability(L, e, expenses) ==
    IF e.intent # "query_affordability" THEN Ret(Decline, "", L)
    ELSE IF ~TruthyObj(e.money)
    THEN Ret(Goto("main"), "", say(L, any("specifyAffordabilityValue", NoVars)))
    ELSE LET totalExpenses == SumValues(expenses)
         IN  Ret(Goto("main"), "",
                 say(L, any("queryAffordability",
                            [value |-> e.money[1].value,
                             balance |-> L.context.budget - totalExpenses
                                         - e.money[1].value])))

summaryInterval(e) ==
    IF TruthyObj(e.interval) THEN e.interval[1].value
    ELSE IF TruthyObj(e.moment)
    THEN fromDateTimes(startOf(e.moment[1].value, e.moment[1].grain),
                       endOf(e.moment[1].value, e.moment[1].grain))
    ELSE thisWeek

main_query_summary(L, e, expenses) ==
    LET interval == summaryInterval(e)
        window == [start |-> interval.start, end |-> interval.end]
    IN  IF Len(expenses) = 0
        THEN Ret(Goto("main"), "", say(L, any("noExpenses", window)))
        ELSE Ret(Goto("main"), "",
                 say(say(say(L, any("expenseSummary", window)),
                         [key |-> "expenseList", vars |-> expenses]),
                     any("expenseTotal", [value |-> SumValues(expenses)])))

\* does the rule reach its await of queryExpenses on these facts
Suspends(state, name, e) ==
    /\ state = "main"
    /\ \/ name = "query_budget" /\ e.intent = "query_budget"
       \/ name = "query_affordability" /\ e.intent = "query_affordability"
                                       /\ TruthyObj(e.money)
       \/ name = "query_summary" /\ e.intent = "query_summary"

\* the interval the suspended rule passes to queryExpenses
QueryInterval(name, e) ==
    IF name = "query_summary" THEN summaryInterval(e) ELSE thisWeek

---------------------------------------------------------------------------
(* RobinLogic.states and RobinLogic.execute *)

states ==
    [ init |-> <<"first_interaction">>,
      main |-> <<"request_help", "tell_joke", "who_are_you", "are_you_bot",
                 "delete_account", "set_budget", "query_budget",
                 "query_affordability", "add_expense", "query_summary",
                 "confused">>,
      delete_account |-> <<"confirmation">>,
      set_budget |-> <<"set_budget">>,
      add_expense |-> <<"add_expense">>,
      specify_expense_item |-> <<"specify_expense_item">>,
      specify_expense_moment |-> <<"specify_expense_moment">>,
      specify_expense_value |-> <<"specify_expense_value">> ]

\* this.states[state] || this.states["init"]
TableOf(state) == IF state \in DOMAIN states THEN state ELSE "init"

\* t[1](): the rule called name in the list of state; expenses is the
\* answer of queryExpenses, read only by the rules that wait for it
RunRule(state, name, L, e, expenses) ==
    CASE state = "init" -> init_first_interaction(L, e)
      [] state = "main" /\ name = "request_help" -> main_request_help(L, e)
      [] state = "main" /\ name = "tell_joke" -> main_tell_joke(L, e)
      [] state = "main" /\ name = "who_are_you" -> main_who_are_you(L, e)
      [] state = "main" /\ name = "are_you_bot" -> main_are_you_bot(L, e)
      [] state = "main" /\ name = "delete_account" -> main_delete_account(L, e)
      [] state = "main" /\ name = "set_budget" -> main_set_budget(L, e)
      [] state = "main" /\ name = "query_budget" ->
            IF e.intent # "query_budget" THEN Ret(Decline, "", L)
            ELSE main_query_budget(L, e, expenses)
      [] state = "main" /\ name = "query_affordability" ->
            main_query_affordability(L, e, expenses)
      [] state = "main" /\ name = "add_expense" -> main_add_expense(L, e)
      [] state = "main" /\ name = "query_summary" ->
            IF e.intent # "query_summary" THEN Ret(Decline, "", L)
            ELSE main_query_summary(L, e, expenses)
      [] state = "main" /\ name = "confused" -> main_confused(L, e)
      [] state = "delete_account" -> delete_account_confirmation(L, e)
      [] state = "set_budget" -> set_budget_set_budget(L, e)
      [] state = "add_expense" -> add_expense_add_expense(L, e)
      [] state = "specify_expense_item" -> specify_expense_item(L, e)
      [] state = "specify_expense_moment" -> specify_expense_moment(L, e)
      [] state = "specify_expense_value" -> specify_expense_value(L, e)

\* The for loop of one execute(state) call from rule i on.  answer is None,
\* or the answer of queryExpenses that rule i was waiting for.  The loop
\* stops at a rule that waits (await), at an epsilon directive (eps: execute
\* calls itself), at a state directive (ret) or at the end of the list (out).
RECURSIVE TryRules(_, _, _, _, _)
TryRules(state, i, L, e, answer) ==
    LET transitions == states[TableOf(state)]
    IN  IF i > Len(transitions)
        THEN [kind |-> "out", to |-> state, rule |-> "", L |-> L, tried |-> {}]
        ELSE LET name == transitions[i]
                 log == IF answer = None THEN {<<state, name>>} ELSE {}
             IN  IF Suspends(TableOf(state), name, e) /\ answer = None
                 THEN [kind |-> "await", to |-> state, rule |-> name, L |-> L,
                       tried |-> log]
                 ELSE LET r == RunRule(TableOf(state), name, L, e,
                                       IF answer = None THEN <<>> ELSE answer[1])
                      IN  IF endsWithBang(r.next)
                          THEN [kind |-> "eps", to |-> sliceBang(r.next),
                                rule |-> name, L |-> r.L, tried |-> log]
                          ELSE IF r.next.to # ""
                          THEN [kind |-> "ret", to |-> r.next.to,
                                rule |-> name, L |-> r.L, tried |-> log]
                          ELSE LET rest == TryRules(state, i + 1, r.L, e, None)
                               IN  [rest EXCEPT !.tried = @ \cup log]

IndexOf(state, name) ==
    CHOOSE i \in 1..Len(states[TableOf(state)]) : states[TableOf(state)][i] = name

---------------------------------------------------------------------------
(* The inputs of a turn: what the caller puts in the session, what the NLU *)
(* service answers, what the expense ledger answers.                       *)

Intents ==
    { "request_help", "tell_joke", "who_are_you", "are_you_bot",
      "delete_account", "set_budget", "query_budget", "query_affordability",
      "add_expense", "query_summary", "feedback_positive", "feedback_negative" }

UserNames == {"", "ann"}
Inputs == {"text", "voice", "none"}     \* which of session.text / voice is set
Items == {"tea"}
Amounts == {0, 5}
Entity(name, type, typeCheck, value, body) ==
    [ name |-> name, type |-> type, typeCheck |-> typeCheck, value |-> value,
      body |-> body, grain |-> "day", from |-> Iso(2), to |-> Iso(3) ]

ItemGroups == {<<>>} \cup {<<Entity("item", "value", "", i, i)>> : i \in Items}
MoneyGroups ==
    {<<>>} \cup {<<Entity("wit$amount_of_money", "value", "", v, "$")>> : v \in Amounts}
NumberGroups == {<<>>, <<Entity("wit$number", "value", "", 5, "#")>>}
DateGroups ==
    { <<>>,
      <<Entity("wit$datetime", "value", "", Iso(1), "")>>,
      <<Entity("wit$datetime", "interval", "interval", Iso(0), "")>>,
      <<Entity("wit$datetime", "value", "", Iso(1), ""),
        Entity("wit$datetime", "interval", "interval", Iso(0), "")>> }

Trait(confidence) == TraitObject(confidence)
NoTraits ==
    [thanks |-> Undefined, greetings |-> Undefined, bye |-> Undefined,
     sentiment |-> <<>>]
TraitPool ==
    { [NoTraits EXCEPT !.thanks = Trait(9)],
      [NoTraits EXCEPT !.greetings = Trait(9)],
      [NoTraits EXCEPT !.bye = Trait(9)],
      [NoTraits EXCEPT !.thanks = Trait(9), !.greetings = Trait(9), !.bye = Trait(4)],
      [NoTraits EXCEPT !.greetings = Trait(4), !.bye = Trait(4)] }

IntentList(n) == IF n = "" THEN <<>> ELSE <<[name |-> n]>>
Wit(n, ig, mg, ng, dg, t) ==
    [intents |-> IntentList(n), entities |-> <<ig, mg, ng, dg>>, traits |-> t]

\* The NLU payloads of the model, after wit.x = wit.x || <empty>: every
\* intent alone; the expense facts in every combination, with and without
\* the add_expense intent; the intents that read a money or a date fact
\* with one; the traits with an intent that main has a rule for and with
\* intents it has none for.
WitPool ==
    { Wit(n, <<>>, <<>>, <<>>, <<>>, NoTraits) : n \in Intents \cup {""} }
    \cup { Wit(n, ig, mg, <<>>, dg, NoTraits) :
             n \in {"", "add_expense"}, ig \in ItemGroups,
             mg \in MoneyGroups, dg \in DateGroups }
    \cup { Wit(n, <<>>, mg, ng, <<>>, NoTraits) :
             n \in {"set_budget", "query_affordability"},
             mg \in MoneyGroups, ng \in NumberGroups }
    \cup { Wit("query_summary", <<>>, <<>>, <<>>, dg, NoTraits) : dg \in DateGroups }
    \cup { Wit(n, <<>>, <<>>, <<>>, <<>>, t) :
             n \in {"", "feedback_positive", "request_help"}, t \in TraitPool }

Expense(item, value, incurredOn) ==
    [item |-> item, value |-> value, incurredOn |-> incurredOn]
Ledgers == { <<>>, <<Expense("tea", 5, 1)>>, <<Expense("tea", 5, 1), Expense("bus", 7, 2)>> }

---------------------------------------------------------------------------
(* The state machine *)

\* what a process call holds, as a record: the call is not started
Idle ==
    [ pc |-> "idle", context |-> NoContext, ephemeral |-> Scaffold,
      messages |-> <<>>, actions |-> <<>>, cur |-> "", rule |-> "",
      query |-> None, error |-> "", tried |-> {}, warned |-> FALSE,
      epsilons |-> 0, nlu |-> None, answers |-> <<>> ]

Init ==
    /\ now = 0
    /\ \E name \in UserNames, st \in {"init", UnknownState} \cup Inherited :
          session = [defaultContext EXCEPT !.userName = name, !.state = st]
    /\ pc = "idle"
    /\ context = NoContext
    /\ ephemeral = Scaffold
    /\ messages = <<>>
    /\ actions = <<>>
    /\ cur = ""
    /\ rule = ""
    /\ query = None
    /\ error = ""
    /\ tried = {}
    /\ warned = FALSE
    /\ epsilons = 0
    /\ nlu = None
    /\ answers = <<>>
    /\ other = Idle

\* time passes between two turns
Tick ==
    /\ pc = "idle"
    /\ now + TickMinutes <= MaxNow
    /\ now' = now + TickMinutes
    /\ UNCHANGED <<session, pc, context, ephemeral, messages, actions, cur,
                   rule, query, error, tried, warned, epsilons, nlu, answers,
                   other>>

\* Robin.process up to its await of queryWit; queryWit throws at once when
\* the session has neither text nor voice
Process(input) ==
    /\ pc = "idle"
    /\ session.messageCounter < MaxTurns
    /\ context' = CopyContext(session)
    /\ ephemeral' = Scaffold
    /\ pc' = IF input = "none" THEN "failed" ELSE "wit"
    /\ error' = IF input = "none" THEN "Either text or voice must be given" ELSE ""
    /\ UNCHANGED <<now, session, messages, actions, cur, rule, query, tried,
                   warned, epsilons, nlu, answers, other>>

\* the NLU call fails: process rejects
WitFailed ==
    /\ pc = "wit"
    /\ pc' = "failed"
    /\ error' = "queryWit"
    /\ UNCHANGED <<now, session, context, ephemeral, messages, actions, cur,
                   rule, query, tried, warned, epsilons, nlu, answers, other>>

\* the NLU call answers: the facts are normalised, a RobinLogic is built and
\* transition starts, up to its call of execute(this.context.state)
WitResolved(wit) ==
    /\ pc = "wit"
    /\ nlu' = Some(wit)
    /\ ephemeral' = processEntities(wit, processIntents(wit, processTraits(wit, ephemeral)))
    /\ messages' = <<>>
    /\ actions' = <<>>
    /\ cur' = context.state
    /\ pc' = "exec"
    /\ UNCHANGED <<now, session, context, rule, query, error, tried, warned,
                   epsilons, answers, other>>

\* a tail of transition that counts every execute call of the turn
FinishPerCall(c, to) ==
    [c EXCEPT !.state = to, !.messageCounter = @ + 1 + epsilons,
              !.lastMessageOn = now]

\* the tail of transition: the state execute returned is stored and the turn
\* is counted
Finish(c, to) ==
    [c EXCEPT !.state = to, !.messageCounter = @ + 1, !.lastMessageOn = now]

\* What one execute call, or its continuation after queryExpenses, writes:
\* it leaves a pending queryExpenses call (await), a nested execute call
\* (eps), or the state that transition stores before it counts the turn and
\* returns the result (ret, out).
Write(o) ==
    /\ messages' = o.L.messages
    /\ actions' = o.L.actions
    /\ tried' = tried \cup o.tried
    /\ CASE o.kind = "await" ->
              /\ pc' = "query"
              /\ rule' = o.rule
              /\ query' = Some(QueryInterval(o.rule, ephemeral))
              /\ context' = o.L.context
              /\ UNCHANGED <<cur, warned, epsilons>>
         [] o.kind = "eps" ->
              /\ pc' = "exec"
              /\ cur' = o.to
              /\ epsilons' = Min(epsilons + 1, MaxEpsilons)
              /\ context' = o.L.context
              /\ rule' = ""
              /\ query' = None
              /\ UNCHANGED warned
         [] OTHER ->
              /\ pc' = "done"
              /\ warned' = (o.kind = "out")
              /\ context' = Finish(o.L.context, o.to)
              /\ rule' = ""
              /\ query' = None
              /\ UNCHANGED <<cur, epsilons>>
    /\ UNCHANGED <<now, ephemeral, error, nlu, other>>

\* the writes of a process that works on session.context itself
SettleShared(o) == Write(o) /\ session' = context'

\* the writes go to the copy process made, never to session.context
Settle(o) == Write(o) /\ UNCHANGED session

\* for(const t of transitions) over a value that is not iterable throws a
\* TypeError: execute, transition and process reject
Throw ==
    /\ pc' = "failed"
    /\ error' = "transitions is not iterable"
    /\ UNCHANGED <<now, session, context, ephemeral, messages, actions, cur,
                   rule, query, tried, warned, epsilons, nlu, other>>

\* execute called without waiting for queryWit: the rules run on the facts
\* there are so far
ExecuteEarly ==
    /\ pc \in {"wit", "exec"}
    /\ Settle(TryRules(IF pc = "wit" THEN context.state ELSE cur, 1,
                        [context |-> context, messages |-> messages,
                         actions |-> actions], ephemeral, None))
    /\ UNCHANGED answers

\* one call execute(cur)
Execute ==
    /\ pc = "exec"
    /\ IF cur \in Inherited
       THEN Throw
       ELSE Settle(TryRules(cur, 1, [context |-> context, messages |-> messages,
                                     actions |-> actions], ephemeral, None))
    /\ UNCHANGED answers

\* queryExpenses answers and the suspended rule goes on
QueryResolved(expenses) ==
    /\ pc = "query"
    /\ Settle(TryRules(cur, IndexOf(cur, rule),
                       [context |-> context, messages |-> messages,
                        actions |-> actions], ephemeral, Some(expenses)))
    /\ answers' = Append(answers, expenses)

\* queryExpenses fails: the rule, execute, transition and process reject
QueryFailed ==
    /\ pc = "query"
    /\ pc' = "failed"
    /\ error' = "queryExpenses"
    /\ UNCHANGED <<now, session, context, ephemeral, messages, actions, cur,
                   rule, query, tried, warned, epsilons, nlu, answers, other>>

\* the call is over: nothing of it is left
Forget ==
    /\ pc' = "idle"
    /\ context' = NoContext
    /\ ephemeral' = Scaffold
    /\ messages' = <<>>
    /\ actions' = <<>>
    /\ cur' = ""
    /\ rule' = ""
    /\ query' = None
    /\ error' = ""
    /\ tried' = {}
    /\ warned' = FALSE
    /\ epsilons' = 0
    /\ nlu' = None
    /\ answers' = <<>>
    /\ UNCHANGED <<now, other>>

\* the caller stores the context of the result for the user's next turn
Store ==
    /\ pc = "done"
    /\ session' = context
    /\ Forget

\* the caller sees the turn fail; the stored context is what it was
Fail ==
    /\ pc = "failed"
    /\ UNCHANGED session
    /\ Forget

Next ==
    \/ Tick
    \/ \E input \in Inputs : Process(input)
    \/ WitFailed
    \/ \E wit \in WitPool : WitResolved(wit)
    \/ Execute
    \/ \E expenses \in Ledgers : QueryResolved(expenses)
    \/ QueryFailed
    \/ Store
    \/ Fail

Spec == Init /\ [][Next]_vars

\* The same machine over the first LiveTurns turns of a user, with the
\* scheduling the runtime gives: a pending execute call runs, and the
\* expense ledger, once called, answers or fails.  Whether the caller ever
\* starts another turn, and whether the NLU service ever answers, is left
\* open.  The turns follow each other within the same minute.
LiveProcess(input) == session.messageCounter < LiveTurns /\ Process(input)

LiveNext ==
    \/ \E input \in Inputs : LiveProcess(input)
    \/ WitFailed
    \/ \E wit \in WitPool : WitResolved(wit)
    \/ Execute
    \/ \E expenses \in Ledgers : QueryResolved(expenses)
    \/ QueryFailed
    \/ Store
    \/ Fail

FairSpec ==
    /\ Init
    /\ [][LiveNext]_vars
    /\ WF_vars(Execute)
    /\ WF_vars(QueryFailed \/ \E expenses \in Ledgers : QueryResolved(expenses))

---------------------------------------------------------------------------
(* Two process calls of one user on the same session.context object.  A    *)
(* call runs until it awaits (queryWit, a rule, queryExpenses) or returns; *)
(* the other call, started or not, then gets the thread.  Each call has    *)
(* its own copy of the context and its own RobinLogic; the caller stores   *)
(* no result while the calls run.                                          *)

\* durable contexts a user's session holds: a new user, a user in main, a
\* user who is asked for the date of an expense
ConcContexts ==
    { [defaultContext EXCEPT !.userName = "ann"],
      [defaultContext EXCEPT !.state = "main", !.messageCounter = 1],
      [defaultContext EXCEPT !.state = "specify_expense_moment",
                             !.messageCounter = 1,
                             !.currentExpenseItem = Some("tea")] }

ConcInit ==
    /\ now = 0
    /\ session \in ConcContexts
    /\ pc = "idle"
    /\ context = NoContext
    /\ ephemeral = Scaffold
    /\ messages = <<>>
    /\ actions = <<>>
    /\ cur = ""
    /\ rule = ""
    /\ query = None
    /\ error = ""
    /\ tried = {}
    /\ warned = FALSE
    /\ epsilons = 0
    /\ nlu = None
    /\ answers = <<>>
    /\ other = Idle

\* the running call's locals, as a record
Running ==
    [ pc |-> pc, context |-> context, ephemeral |-> ephemeral,
      messages |-> messages, actions |-> actions, cur |-> cur, rule |-> rule,
      query |-> query, error |-> error, tried |-> tried, warned |-> warned,
      epsilons |-> epsilons, nlu |-> nlu, answers |-> answers ]

\* the thread changes calls, were messages one list for all calls
SwapSharingMessages ==
    /\ other' = [Running EXCEPT !.messages = <<>>]
    /\ pc' = other.pc
    /\ context' = other.context
    /\ ephemeral' = other.ephemeral
    /\ UNCHANGED messages
    /\ actions' = other.actions
    /\ cur' = other.cur
    /\ rule' = other.rule
    /\ query' = other.query
    /\ error' = other.error
    /\ tried' = other.tried
    /\ warned' = other.warned
    /\ epsilons' = other.epsilons
    /\ nlu' = other.nlu
    /\ answers' = other.answers
    /\ UNCHANGED <<now, session>>

\* the thread changes calls: the running call waits with all it holds, the
\* other call goes on with all it held
Swap ==
    /\ other' = Running
    /\ pc' = other.pc
    /\ context' = other.context
    /\ ephemeral' = other.ephemeral
    /\ messages' = other.messages
    /\ actions' = other.actions
    /\ cur' = other.cur
    /\ rule' = other.rule
    /\ query' = other.query
    /\ error' = other.error
    /\ tried' = other.tried
    /\ warned' = other.warned
    /\ epsilons' = other.epsilons
    /\ nlu' = other.nlu
    /\ answers' = other.answers
    /\ UNCHANGED <<now, session>>

ConcNext ==
    \/ \E input \in Inputs : Process(input)
    \/ WitFailed
    \/ \E wit \in WitPool : WitResolved(wit)
    \/ Execute
    \/ \E expenses \in Ledgers : QueryResolved(expenses)
    \/ QueryFailed
    \/ Swap

ConcSpec == ConcInit /\ [][ConcNext]_vars

---------------------------------------------------------------------------
(* The normaliser alone: the three calls of process between queryWit and   *)
(* new RobinLogic, over payloads richer than those of the dialogue: traits *)
(* of either shape with every order of confidences, several intents, the   *)
(* entities in every order and number up to MaxEntities.                   *)

TraitShapes ==
    { Undefined, TraitObject(4), TraitObject(9), TraitArray(4), TraitArray(9) }
TraitPayloads ==
    { [intents |-> <<>>, entities |-> <<>>,
       traits |-> [thanks |-> t, greetings |-> g, bye |-> b, sentiment |-> <<>>]] :
         t \in {Undefined, TraitObject(9)}, g \in TraitShapes, b \in TraitShapes }
    \cup { [intents |-> <<>>, entities |-> <<>>,
            traits |-> [NoTraits EXCEPT !.sentiment = <<[value |-> v]>>]] :
              v \in {"negative", "positive"} }

IntentPayloads ==
    { [intents |-> l, entities |-> <<>>, traits |-> NoTraits] :
        l \in { <<>>, <<[name |-> "add_expense"]>>,
                <<[name |-> "add_expense"], [name |-> "tell_joke"]>>,
                <<[name |-> "tell_joke"], [name |-> "add_expense"]>> } }

EntityPool ==
    << Entity("item", "value", "", "tea", "tea"),
      Entity("item", "value", "", "bus", "bus"),
      Entity("wit$amount_of_money", "value", "", 0, "$0"),
      Entity("wit$amount_of_money", "value", "", 5, "$5"),
      Entity("wit$amount_of_money", "interval", "interval", 9, "$9"),
      Entity("wit$number", "value", "", 7, "#7"),
      Entity("wit$number", "value", "", 8, "#8"),
      Entity("wit$datetime", "value", "", Iso(1), ""),
      Entity("wit$datetime", "value", "", Iso(4), ""),
      Entity("wit$datetime", "interval", "interval", Iso(0), ""),
      [Entity("wit$datetime", "interval", "interval", Iso(0), "")
          EXCEPT !.from = Iso(0), !.to = Iso(1), !.grain = "week"],
      Entity("wit$location", "value", "", "home", "home") >>

RECURSIVE SeqsUpTo(_, _)
SeqsUpTo(S, n) ==
    IF n = 0 THEN {<<>>}
    ELSE LET shorter == SeqsUpTo(S, n - 1)
         IN  shorter \cup {Append(l, x) : l \in shorter, x \in S}

\* the orders in which up to MaxEntities entities of the pool can come
EntityOrders == SeqsUpTo(1..Len(EntityPool), MaxEntities)

\* wit.entities holds the entities of an order in two groups
EntityPayload(order) ==
    LET l == [i \in 1..Len(order) |-> EntityPool[order[i]]]
    IN  [intents |-> <<>>,
         entities |-> <<SubSeq(l, 1, Len(l) \div 2),
                        SubSeq(l, Len(l) \div 2 + 1, Len(l))>>,
         traits |-> NoTraits]

\* queryWit has answered; nothing is normalised yet
NormInit ==
    /\ now = 0
    /\ session = defaultContext
    /\ pc = "traits"
    /\ context = CopyContext(defaultContext)
    /\ ephemeral = Scaffold
    /\ messages = <<>>
    /\ actions = <<>>
    /\ cur = ""
    /\ rule = ""
    /\ query = None
    /\ error = ""
    /\ tried = {}
    /\ warned = FALSE
    /\ epsilons = 0
    /\ \/ \E wit \in TraitPayloads \cup IntentPayloads : nlu = Some(wit)
       \/ \E order \in EntityOrders : nlu = Some(EntityPayload(order))
    /\ answers = <<>>
    /\ other = Idle

NormStep(at, facts, to) ==
    /\ pc = at
    /\ ephemeral' = facts
    /\ pc' = to
    /\ UNCHANGED <<now, session, context, messages, actions, cur, rule, query,
                   error, tried, warned, epsilons, nlu, answers, other>>

ProcessTraits == NormStep("traits", processTraits(nlu[1], ephemeral), "intents")
ProcessIntents == NormStep("intents", processIntents(nlu[1], ephemeral), "entities")
ProcessEntities == NormStep("entities", processEntities(nlu[1], ephemeral), "normalised")

NormNext == ProcessTraits \/ ProcessIntents \/ ProcessEntities

NormSpec == NormInit /\ [][NormNext]_vars

---------------------------------------------------------------------------
(* Vocabulary of the claims.  When pc = "done" the turn is complete:       *)
(* session is the context the turn started from, context the one it        *)
(* returns, ephemeral its facts, messages and actions what it emitted.     *)

Done == pc = "done"
Elapsed == now - session.lastMessageOn      \* minutes since lastMessageOn
FlowStates == {"specify_expense_item", "specify_expense_moment", "specify_expense_value"}
Keys(msgs) == [i \in 1..Len(msgs) |-> msgs[i].key]

---------------------------------------------------------------------------
\* C1: a turn that starts in durable state delete_account more than 3
\* minutes after lastMessageOn ends in state main with isActive unchanged,
\* whatever intent was detected.
C1_ConfirmationTimeout ==
    (Done /\ session.state = "delete_account" /\ Elapsed > 3)
        => (context.state = "main" /\ context.isActive = session.isActive)

\* C2: every turn terminates: a pending execute call leads, after finitely
\* many epsilon transitions, to the end of the turn (or to its rejection
\* when queryExpenses fails).
C2_EveryTurnTerminates == (pc = "exec") ~> (pc \in {"done", "failed"})

\* C3 as stated: a turn whose facts satisfy no rule of the state it starts
\* in leaves the durable state unchanged and emits no message.
C3_NoOpTurn ==
    (Done /\ warned /\ epsilons = 0)
        => (context.state = session.state /\ messages = <<>>)

\* the message a state's rule emits when it declines
Reprompt(state) ==
    CASE state = "delete_account" -> "confused"
      [] state = "set_budget" -> "specifyBudget"
      [] state = "specify_expense_item" -> "specifyExpenseItem"
      [] state = "specify_expense_moment" -> "specifyExpenseMoment"
      [] state = "specify_expense_value" -> "specifyExpenseValue"
      [] OTHER -> ""

\* C3 amended: a turn whose facts satisfy no rule of the state it starts in
\* leaves the durable state unchanged and emits exactly one message, the
\* re-prompt of that state.
C3_DecliningTurnReprompts ==
    (Done /\ warned /\ epsilons = 0)
        => /\ context.state = session.state
           /\ Keys(messages) = <<Reprompt(session.state)>>
           /\ actions = <<>>

C3_Witness == Done /\ warned /\ epsilons = 0 /\ session.state = "set_budget"

\* the facts of the turn are an item, a money and a moment fact, the intent
\* is add_expense and the turn starts in main
AllThreeInMain ==
    /\ session.state = "main"
    /\ ephemeral.intent = "add_expense"
    /\ ephemeral.item # None /\ ephemeral.money # None /\ ephemeral.moment # None

\* C4: a turn that starts in main with intent add_expense and an item, a
\* money and a moment fact ends in main, emits exactly one add_expense action
\* made of the three facts, and leaves isActive, userName, budget and
\* jokeCounter unchanged.
C4_SlotFillingInOneTurn ==
    (pc = "exec" /\ AllThreeInMain)
        ~> /\ Done /\ AllThreeInMain
           /\ context.state = "main"
           /\ actions = << [type |-> "add_expense",
                            item |-> ephemeral.item[1],
                            value |-> ephemeral.money[1].value,
                            incurredOn |-> ephemeral.moment[1].value] >>
           /\ context.isActive = session.isActive
           /\ context.userName = session.userName
           /\ context.budget = session.budget
           /\ context.jokeCounter = session.jokeCounter

\* C5: a turn counts once and stores the state once, however many epsilon
\* transitions it takes: until transition returns the copy has the state and
\* the counter the turn started with, the returned context has the counter
\* plus 1, and over the turns of a user the counter never falls and rises by
\* 1 with every stored result.
C5_OneTurnOneCount ==
    /\ [](pc \in {"wit", "exec", "query", "failed"}
            => /\ context.state = session.state
               /\ context.messageCounter = session.messageCounter)
    /\ [](Done => context.messageCounter = session.messageCounter + 1)
    /\ [][/\ session'.messageCounter >= session.messageCounter
          /\ (pc = "done" /\ pc' = "idle")
                => session'.messageCounter = session.messageCounter + 1]_vars

C5_Witness ==
    /\ Done /\ session.state = "main" /\ epsilons = 2
    /\ context.state = "specify_expense_item"

\* the turn reached main's tell_joke rule with the intent tell_joke
JokeTurn == ephemeral.intent = "tell_joke" /\ <<"main", "tell_joke">> \in tried
IsJoke(m) == m.key \in {"joke", "doneJoking"}

\* C6: jokeCounter stays within 0..JokeLength; a tell_joke turn tells joke
\* number jokeCounter and raises the counter by 1 while it is below
\* JokeLength, and tells the filler and leaves the counter once it is
\* JokeLength; no other turn tells a joke or changes the counter.
C6_JokeCounterSaturates ==
    /\ session.jokeCounter \in 0..JokeLength
    /\ pc # "idle" => context.jokeCounter \in 0..JokeLength
    /\ (Done /\ JokeTurn) =>
          /\ messages # <<>>
          /\ messages[Len(messages)] =
                IF session.jokeCounter < JokeLength
                THEN [key |-> "joke", vars |-> [index |-> session.jokeCounter]]
                ELSE [key |-> "doneJoking", vars |-> NoVars]
          /\ \A i \in 1..(Len(messages) - 1) : ~IsJoke(messages[i])
          /\ context.jokeCounter =
                IF session.jokeCounter < JokeLength
                THEN session.jokeCounter + 1 ELSE JokeLength
    /\ (Done /\ ~JokeTurn) =>
          /\ context.jokeCounter = session.jokeCounter
          /\ \A i \in 1..Len(messages) : ~IsJoke(messages[i])

C6_Witness ==
    /\ Done /\ JokeTurn /\ session.jokeCounter = JokeLength
    /\ messages[Len(messages)].key = "doneJoking"

\* C7: session.context changes only when the caller stores a result: no step
\* of process changes it, whether the call returns or fails; and a session
\* with neither text nor voice fails before any rule is tried.
C7_CallerContextUntouched ==
    /\ [][session' # session => (pc = "done" /\ pc' = "idle")]_vars
    /\ [](error = "Either text or voice must be given"
            => pc = "failed" /\ tried = {} /\ messages = <<>> /\ actions = <<>>
               /\ context = session)

C7_Witness ==
    /\ pc = "failed" /\ error = "queryExpenses"
    /\ session.state = "init" /\ Len(messages) = 2

\* C8: isActive goes from true to false only in a turn that starts in
\* delete_account, is not timed out and has intent feedback_positive, and
\* that turn ends in main; feedback_negative ends in main with isActive
\* unchanged; any other intent stays in delete_account with isActive
\* unchanged and a confusion message; isActive never goes back to true.
C8_DeactivationProtocol ==
    Done =>
      /\ (session.isActive /\ ~context.isActive)
            => /\ session.state = "delete_account"
               /\ ~(Elapsed > 3)
               /\ ephemeral.intent = "feedback_positive"
               /\ context.state = "main"
      /\ (session.state = "delete_account" /\ ~(Elapsed > 3)
            /\ ephemeral.intent = "feedback_negative")
            => (context.state = "main" /\ context.isActive = session.isActive)
      /\ (session.state = "delete_account" /\ ~(Elapsed > 3)
            /\ ephemeral.intent \notin {"feedback_positive", "feedback_negative"})
            => /\ context.state = "delete_account"
               /\ context.isActive = session.isActive
               /\ Keys(messages) = <<"confused">>
      /\ ~session.isActive => ~context.isActive

\* C9: an add_expense action is emitted only when the three slots of the
\* context are present, it is made of the three slot values, a turn emits at
\* most one, and the turn that emits it ends in main.
C9_ActionOnlyWhenComplete ==
    pc # "idle" =>
      /\ Len(actions) <= 1
      /\ actions # <<>> =>
            /\ Done
            /\ context.state = "main"
            /\ context.currentExpenseItem # None
            /\ context.currentExpenseValue # None
            /\ context.currentExpenseIncurredOn # None
            /\ actions[1] = [type |-> "add_expense",
                             item |-> context.currentExpenseItem[1],
                             value |-> context.currentExpenseValue[1],
                             incurredOn |-> context.currentExpenseIncurredOn[1]]

C9_Witness ==
    Done /\ Len(actions) = 1 /\ session.state = "specify_expense_value"

Slots(c) == <<c.currentExpenseItem, c.currentExpenseValue, c.currentExpenseIncurredOn>>

SlotsOfFacts(e) ==
    << IF TruthyStr(e.item) THEN e.item ELSE None,
       IF TruthyObj(e.money) THEN Some(e.money[1].value) ELSE None,
       IF TruthyObj(e.moment) THEN Some(e.moment[1].value)
       ELSE IF TruthyObj(e.interval) THEN Some(e.interval[1].value.start)
       ELSE None >>

---------------------------------------------------------------------------
\* the confidence score a trait of the payload carries
Score(trait) ==
    IF trait.shape = "object" THEN trait.confidence ELSE trait.items[1].confidence

\* C11: after processTraits, greetings and bye are never both true; when
\* both traits are present greetings alone is kept if its confidence is
\* greater than that of bye, otherwise (equal confidence included) bye
\* alone is kept; a trait present alone is kept; thanks is the presence of
\* its trait, whatever the other two are.
C11_TraitNormalization ==
    (nlu # None /\ pc \in {"intents", "entities", "normalised"})
        => LET t == nlu[1].traits
               g == Present(t.greetings)
               b == Present(t.bye)
           IN  /\ ~(ephemeral.greetings /\ ephemeral.bye)
               /\ (g /\ b) =>
                     IF Score(t.greetings) > Score(t.bye)
                     THEN ephemeral.greetings /\ ~ephemeral.bye
                     ELSE ephemeral.bye /\ ~ephemeral.greetings
               /\ (g /\ ~b) => (ephemeral.greetings /\ ~ephemeral.bye)
               /\ (b /\ ~g) => (ephemeral.bye /\ ~ephemeral.greetings)
               /\ (~g /\ ~b) => (~ephemeral.greetings /\ ~ephemeral.bye)
               /\ ephemeral.thanks = Present(t.thanks)

---------------------------------------------------------------------------
\* the entities of the payload in the order the normaliser meets them
Payload == Flatten(nlu[1].entities)
Normalised == nlu # None /\ pc = "normalised"
\* the positions of the entities of a name that have type value
ValuesOf(name) ==
    {i \in 1..Len(Payload) : Payload[i].name = name /\ Payload[i].type = "value"}
MoneyOf(entity) == Some([body |-> entity.body, value |-> entity.value])

\* C12: whatever the order of the entities, if an amount of money of type
\* value is among them the money fact is that of an amount of money and of
\* no generic number; if there are only generic numbers the money fact is
\* that of a number; with neither there is no money fact.
C12_MoneyFallback ==
    Normalised
        => LET amounts == ValuesOf("wit$amount_of_money")
               numbers == ValuesOf("wit$number")
           IN  /\ amounts # {} =>
                     /\ \E i \in amounts : ephemeral.money = MoneyOf(Payload[i])
                     /\ \A i \in numbers : ephemeral.money # MoneyOf(Payload[i])
               /\ (amounts = {} /\ numbers # {}) =>
                     \E i \in numbers : ephemeral.money = MoneyOf(Payload[i])
               /\ (amounts = {} /\ numbers = {}) => ephemeral.money = None

\* a generic number came before the amount of money, and the amount is the
\* money fact
C12_Witness ==
    /\ Normalised
    /\ \E i \in ValuesOf("wit$number"), j \in ValuesOf("wit$amount_of_money") :
          i < j /\ ephemeral.money = MoneyOf(Payload[j])

---------------------------------------------------------------------------
\* the failures of a turn that come from its collaborators or its caller
Rejections == {"Either text or voice must be given", "queryWit", "queryExpenses"}

\* C13: a turn that starts with a state name that is no key of the rule
\* table does not fail (it is rejected only when its input, the NLU service
\* or the ledger fails); it runs init's rule, so its first messages are the
\* greeting and the welcome, and the state it stores is a key of the table.
C13_UnknownDurableState ==
    (session.state \notin DOMAIN states)
        => /\ (pc = "failed") => error \in Rejections
           /\ Done =>
                 /\ <<session.state, "first_interaction">> \in tried
                 /\ Len(messages) >= 2
                 /\ messages[1].key \in {"personalGreeting", "genericGreeting"}
                 /\ messages[2].key = "welcome"
                 /\ context.state \in DOMAIN states

---------------------------------------------------------------------------
\* the sum of the values of a list of expenses
Total(expenses) ==
    LET sum[i \in 0..Len(expenses)] ==
            IF i = 0 THEN 0 ELSE sum[i - 1] + expenses[i].value
    IN  sum[Len(expenses)]
Fired(state, name) == <<state, name>> \in tried
Last(msgs) == msgs[Len(msgs)]

\* C14: in main, intent query_budget reports the balance budget - (sum of
\* the values queryExpenses returned) and intent query_affordability with a
\* money fact reports budget - sum - money.value; both leave the budget and
\* the three slots as they were and end in main; query_affordability
\* without a money fact emits the specify-value prompt and queryExpenses is
\* not called.
C14_BudgetQueries ==
    /\ (Done /\ Fired("main", "query_budget") /\ ephemeral.intent = "query_budget")
          => /\ Len(answers) = 1
             /\ Last(messages) =
                   [key |-> "queryBudget",
                    vars |-> [value |-> session.budget,
                              balance |-> session.budget - Total(answers[1])]]
             /\ context.budget = session.budget
             /\ Slots(context) = Slots(session)
             /\ context.state = "main"
    /\ (Done /\ Fired("main", "query_affordability")
              /\ ephemeral.intent = "query_affordability" /\ ephemeral.money # None)
          => /\ Len(answers) = 1
             /\ Last(messages) =
                   [key |-> "queryAffordability",
                    vars |-> [value |-> ephemeral.money[1].value,
                              balance |-> session.budget - Total(answers[1])
                                          - ephemeral.money[1].value]]
             /\ context.budget = session.budget
             /\ Slots(context) = Slots(session)
             /\ context.state = "main"
    /\ (pc = "query" /\ rule = "query_affordability") => ephemeral.money # None
    /\ (Done /\ Fired("main", "query_affordability")
              /\ ephemeral.intent = "query_affordability" /\ ephemeral.money = None)
          => /\ Last(messages).key = "specifyAffordabilityValue"
             /\ answers = <<>>
             /\ context.budget = session.budget
             /\ Slots(context) = Slots(session)
             /\ context.state = "main"

\* with a budget the user has set and two expenses in the week, the
\* affordability of an amount is reported
C14_Witness ==
    /\ Done
    /\ session.state = "main"
    /\ session.budget = 5
    /\ ephemeral.intent = "query_affordability"
    /\ ephemeral.money # None /\ ephemeral.money[1].value = 5
    /\ Len(answers) = 1 /\ Len(answers[1]) = 2
    /\ Last(messages).key = "queryAffordability"
    /\ Last(messages).vars.balance = 5 - 12 - 5

---------------------------------------------------------------------------
\* the facts the normaliser makes of a payload
FactsOf(wit) == processEntities(wit, processIntents(wit, processTraits(wit, Scaffold)))

\* execute(state) run to its end without interruption; given are the
\* answers queryExpenses gives, in order
RECURSIVE Drive(_, _, _, _, _)
Drive(state, L, e, given, fuel) ==
    LET first == TryRules(state, 1, L, e, None)
        asks == first.kind = "await" /\ given # <<>>
        o == IF asks
             THEN TryRules(state, IndexOf(state, first.rule), first.L, e,
                           Some(Head(given)))
             ELSE first
    IN  IF o.kind = "eps" /\ fuel > 0
        THEN Drive(o.to, o.L, e, IF asks THEN Tail(given) ELSE given, fuel - 1)
        ELSE o

\* the result bundle of a process call that runs alone on a context
Alone(c, wit, given) ==
    LET o == Drive(c.state, [context |-> CopyContext(c), messages |-> <<>>,
                             actions |-> <<>>], FactsOf(wit), given, MaxEpsilons)
    IN  [ context |-> Finish(o.L.context, o.to), messages |-> o.L.messages,
          actions |-> o.L.actions, wit |-> wit ]

Bundle(call) ==
    [ context |-> call.context, messages |-> call.messages,
      actions |-> call.actions, wit |-> call.nlu[1] ]

\* C15: of two process calls started on the same session.context that
\* interleave in any way at their awaits, each returns the bundle (context,
\* messages, actions, wit) it would return if it ran alone on that context
\* with the same NLU and ledger answers: it sees nothing the other wrote.
C15_TurnIsolation ==
    \A call \in {Running, other} :
        call.pc = "done" => Bundle(call) = Alone(session, call.nlu[1], call.answers)

\* both calls are done, on different payloads and with different results,
\* and the ledger answered one of them
C15_Witness ==
    /\ Done /\ other.pc = "done"
    /\ nlu # other.nlu
    /\ messages # <<>> /\ other.messages # <<>> /\ messages # other.messages
    /\ answers # <<>>
    /\ context.state # other.context.state

---------------------------------------------------------------------------
InTurn == pc \in {"exec", "query", "done"}
Count(msgs, key) == Cardinality({i \in 1..Len(msgs) : msgs[i].key = key})
\* the turn carries a money fact and has run the rule of state set_budget
SetsBudget == Fired("set_budget", "set_budget") /\ ephemeral.money # None

\* C16: a turn in main with intent set_budget and no money fact ends in
\* state set_budget with one prompt and the budget unchanged; a turn with a
\* money fact that starts in main with intent set_budget, or in set_budget
\* with any intent, sets the budget to money.value, emits one confirmation
\* and ends in main; no other rule changes the budget.
C16_BudgetSettingFlow ==
    /\ (Done /\ Fired("main", "set_budget") /\ ephemeral.intent = "set_budget"
              /\ ephemeral.money = None)
          => /\ context.state = "set_budget"
             /\ Count(messages, "specifyBudget") = 1
             /\ Last(messages).key = "specifyBudget"
             /\ session.state = "main" => Len(messages) = 1
             /\ context.budget = session.budget
    /\ (Done /\ ephemeral.money # None
              /\ \/ session.state = "main" /\ ephemeral.intent = "set_budget"
                 \/ session.state = "set_budget")
          => /\ context.budget = ephemeral.money[1].value
             /\ messages = <<[key |-> "settingBudget",
                              vars |-> [value |-> ephemeral.money[1].value]]>>
             /\ context.state = "main"
    /\ (InTurn /\ ~SetsBudget) => context.budget = session.budget

\* in state set_budget a turn with an amount of 0 and no intent sets the
\* budget to 0
C16_Witness ==
    /\ Done
    /\ session.state = "set_budget"
    /\ ephemeral.intent = ""
    /\ ephemeral.money # None /\ ephemeral.money[1].value = 0
    /\ session.budget # 0 /\ context.budget = 0
    /\ context.state = "main"

---------------------------------------------------------------------------
\* the turn has no fact for the slot that state asks for
Lacks(state) ==
    CASE state = "specify_expense_item" -> ephemeral.item = None
      [] state = "specify_expense_moment" ->
            ephemeral.moment = None /\ ephemeral.interval = None
      [] state = "specify_expense_value" -> ephemeral.money = None
\* the slot that state asks for, in context c
SlotOf(state, c) ==
    CASE state = "specify_expense_item" -> c.currentExpenseItem
      [] state = "specify_expense_moment" -> c.currentExpenseIncurredOn
      [] state = "specify_expense_value" -> c.currentExpenseValue
\* what the facts of the turn give for that slot
FactOf(state) ==
    CASE state = "specify_expense_item" -> ephemeral.item
      [] state = "specify_expense_moment" ->
            IF ephemeral.moment # None THEN Some(ephemeral.moment[1].value)
            ELSE Some(ephemeral.interval[1].value.start)
      [] state = "specify_expense_value" -> Some(ephemeral.money[1].value)

\* C17: a turn that starts in specify_expense_X without the fact for X
\* emits exactly one message, the re-prompt of X, and leaves the state and
\* the three slots as they were; with the fact, slot X is set from it (the
\* moment before the start of the interval) and the same turn goes on in
\* add_expense.
C17_SpecifyStates ==
    (InTurn /\ session.state \in FlowStates)
        => IF Lacks(session.state)
           THEN Done =>
                  /\ messages = <<[key |-> Reprompt(session.state), vars |-> NoVars]>>
                  /\ context.state = session.state
                  /\ Slots(context) = Slots(session)
                  /\ epsilons = 0
           ELSE (Done \/ epsilons > 0) =>
                  /\ SlotOf(session.state, context) = FactOf(session.state)
                  /\ epsilons > 0
                  /\ \/ Fired("add_expense", "add_expense")
                     \/ pc = "exec" /\ cur = "add_expense"

\* asked for the date, the user gives a moment and an interval: the moment
\* is stored and the turn went on through add_expense
C17_Witness ==
    /\ Done
    /\ session.state = "specify_expense_moment"
    /\ ephemeral.moment # None /\ ephemeral.interval # None
    /\ ephemeral.moment[1].value # ephemeral.interval[1].value.start
    /\ context.currentExpenseIncurredOn = Some(ephemeral.moment[1].value)
    /\ Fired("add_expense", "add_expense")

---------------------------------------------------------------------------
\* what the facts of the turn give for the date of the expense
DateOfFacts ==
    IF ephemeral.moment # None THEN Some(ephemeral.moment[1].value)
    ELSE IF ephemeral.interval # None THEN Some(ephemeral.interval[1].value.start)
    ELSE None

\* C18: the rule of state add_expense overwrites no slot that is filled.
\* In a turn that starts in specify_expense_X only that rule writes the
\* slots other than X: once it has run, each of them that was present
\* before the turn has the value it had, whatever the facts of the turn,
\* and an empty incurredOn slot holds the moment fact if there is one, the
\* start of the interval if there is only an interval.
C18_FilledSlotsKept ==
    (InTurn /\ session.state \in FlowStates /\ Fired("add_expense", "add_expense"))
        => /\ \A Y \in FlowStates \ {session.state} :
                 SlotOf(Y, session) # None => SlotOf(Y, context) = SlotOf(Y, session)
           /\ (session.state # "specify_expense_moment"
                  /\ session.currentExpenseIncurredOn = None)
                 => context.currentExpenseIncurredOn = DateOfFacts

---------------------------------------------------------------------------
\* the turn is over and asks for a slot
EndsAsking == Done /\ context.state \in FlowStates
Prompts == {"specifyExpenseItem", "specifyExpenseMoment", "specifyExpenseValue"}
\* the slots before the one asked for are filled
SlotsInOrder ==
    /\ context.state = "specify_expense_moment" => context.currentExpenseItem # None
    /\ context.state = "specify_expense_value" =>
          /\ context.currentExpenseItem # None
          /\ context.currentExpenseIncurredOn # None
\* one specify prompt, that of the slot asked for, ends the messages
OnePrompt ==
    /\ Cardinality({i \in 1..Len(messages) : messages[i].key \in Prompts}) = 1
    /\ Last(messages).key = Reprompt(context.state)
NoSlotFact ==
    /\ ephemeral.item = None /\ ephemeral.money = None
    /\ ephemeral.moment = None /\ ephemeral.interval = None

\* C19 as stated: a turn that ends in specify_expense_moment has the item
\* slot filled, one that ends in specify_expense_value the item and the
\* incurredOn slot; each such turn emits exactly one specify prompt, and
\* the flow announcement only if it started in main with no slot-relevant
\* fact.
C19_SlotOrder ==
    EndsAsking
        => /\ SlotsInOrder
           /\ OnePrompt
           /\ Count(messages, "addExpense") > 0
                 => (session.state = "main" /\ NoSlotFact)

\* C19 amended: as above, and the flow announcement comes, once and right
\* before the prompt, exactly when the turn ran main's add_expense rule
\* with no slot-relevant fact, be it that the turn started in main or that
\* it started in init (or an unknown state) and went on in main.
C19_SlotOrderThroughMain ==
    EndsAsking
        => /\ SlotsInOrder
           /\ OnePrompt
           /\ IF Fired("main", "add_expense") /\ NoSlotFact
              THEN /\ Count(messages, "addExpense") = 1
                   /\ messages[Len(messages) - 1].key = "addExpense"
                   /\ session.state = "main" => Len(messages) = 2
              ELSE Count(messages, "addExpense") = 0
           /\ Fired("main", "add_expense")
                 => session.state \in {"main", "init", UnknownState}

\* the first turn of a user asks to add an expense and names nothing: after
\* greeting and welcome the flow is announced and the item asked for
C19_Witness ==
    /\ EndsAsking
    /\ session.state = "init"
    /\ Keys(messages) = <<"genericGreeting", "welcome", "addExpense", "specifyExpenseItem">>

---------------------------------------------------------------------------
\* the positions in main's rule list of the rules the turn has tried
TriedInMain == {i \in 1..Len(states.main) : Fired("main", states.main[i])}
\* the position of the confused rule, the last of the list
Confused == Len(states.main)
\* the one message the confused rule has for the facts of the turn
Courtesy ==
    IF ephemeral.thanks THEN [key |-> "thanks", vars |-> NoVars]
    ELSE IF ephemeral.greetings THEN [key |-> "hi", vars |-> NoVars]
    ELSE IF ephemeral.bye THEN [key |-> "bye", vars |-> [name |-> session.userName]]
    ELSE [key |-> "confused", vars |-> NoVars]

\* C20: main's rules are tried in list order and none after the rule of the
\* turn's intent, the first to return a directive; the confused rule is
\* tried only when the intent has no rule; it says one message, and only if
\* the turn has none yet: thanks before greeting before bye before the
\* confusion message; and it ends the turn in main.
C20_FirstMatchWins ==
    InTurn
        => /\ \A i \in TriedInMain : \A j \in 1..(i - 1) : j \in TriedInMain
           /\ \A i \in 1..(Confused - 1) :
                 ephemeral.intent = states.main[i] => \A j \in TriedInMain : j <= i
           /\ Confused \in TriedInMain =>
                 /\ \A i \in 1..(Confused - 1) : ephemeral.intent # states.main[i]
                 /\ Done
                 /\ context.state = "main"
                 /\ IF session.state = "main"
                    THEN messages = <<Courtesy>>
                    ELSE /\ Len(messages) = 2
                         /\ messages[2].key = "welcome"

\* in main, thanks and a greeting with an intent main has no rule for: the
\* confused rule is reached and thanks alone is answered
C20_Witness ==
    /\ Done
    /\ session.state = "main"
    /\ ephemeral.intent = "feedback_positive"
    /\ ephemeral.thanks /\ ephemeral.greetings
    /\ TriedInMain = 1..Confused
    /\ Keys(messages) = <<"thanks">>

---------------------------------------------------------------------------
\* the greeting of a user of that name
Greeting(name) ==
    IF name # "" THEN [key |-> "personalGreeting", vars |-> [name |-> name]]
    ELSE [key |-> "genericGreeting", vars |-> NoVars]
\* the position in main's list of the rule that answers the turn's intent:
\* the rule of that name, else the confused rule
Dispatched ==
    IF \E i \in 1..(Confused - 1) : states.main[i] = ephemeral.intent
    THEN CHOOSE i \in 1..(Confused - 1) : states.main[i] = ephemeral.intent
    ELSE Confused

\* C21: a turn that starts in init emits the greeting, by name exactly if
\* userName is not empty, and then the welcome as its first two messages;
\* it goes on in main within the turn, where the rule of the turn's intent
\* is run; and it emits no confused, thanks, hi or bye reply.
C21_FirstInteraction ==
    (InTurn /\ session.state = "init" /\ (Done \/ epsilons > 0))
        => /\ Fired("init", "first_interaction")
           /\ Len(messages) >= 2
           /\ messages[1] = Greeting(session.userName)
           /\ messages[2] = [key |-> "welcome", vars |-> NoVars]
           /\ \A i \in 1..Len(messages) :
                 messages[i].key \notin {"confused", "thanks", "hi", "bye"}
           /\ (pc = "exec" /\ epsilons = 1) => cur = "main"
           /\ (Done \/ pc = "query" \/ epsilons > 1) => Dispatched \in TriedInMain

\* the first turn of a user without a name says thanks and nothing else:
\* the confused rule is run and stays silent
C21_Witness ==
    /\ Done
    /\ session.state = "init" /\ session.userName = ""
    /\ ephemeral.thanks
    /\ Confused \in TriedInMain
    /\ Keys(messages) = <<"genericGreeting", "welcome">>

---------------------------------------------------------------------------
\* the positions of the date/time entities that carry an interval
IntervalsOf ==
    {i \in 1..Len(Payload) : /\ Payload[i].name = "wit$datetime"
                              /\ Payload[i].type # "value"
                              /\ Payload[i].typeCheck = "interval"}
First(S) == CHOOSE i \in S : \A j \in S : i <= j
Final(S) == CHOOSE i \in S : \A j \in S : j <= i
MomentOf(entity) == Some([grain |-> entity.grain, value |-> fromISO(entity.value)])
IntervalOf(entity) ==
    Some([grain |-> entity.grain,
          value |-> fromDateTimes(fromISO(entity.from), fromISO(entity.to))])
\* item, moment and interval are those of the last entity of their kind,
\* and money that of the last amount of money if there is one; without
\* entities of a kind there is no fact of that kind
LastOfKindWins ==
    LET items == ValuesOf("item")
        amounts == ValuesOf("wit$amount_of_money")
        moments == ValuesOf("wit$datetime")
    IN  /\ ephemeral.item =
              IF items = {} THEN None ELSE Some(Payload[Final(items)].value)
        /\ amounts # {} => ephemeral.money = MoneyOf(Payload[Final(amounts)])
        /\ (amounts = {} /\ ValuesOf("wit$number") = {}) => ephemeral.money = None
        /\ ephemeral.moment =
              IF moments = {} THEN None ELSE MomentOf(Payload[Final(moments)])
        /\ ephemeral.interval =
              IF IntervalsOf = {} THEN None ELSE IntervalOf(Payload[Final(IntervalsOf)])

\* C22 as stated: of several entities of a kind (item, amount of money,
\* generic number, date/time value, date/time interval) the last one gives
\* the fact; entities of other names change no fact.
C22_LastEntityWins ==
    Normalised
        => /\ LastOfKindWins
           /\ (ValuesOf("wit$amount_of_money") = {} /\ ValuesOf("wit$number") # {})
                 => ephemeral.money = MoneyOf(Payload[Final(ValuesOf("wit$number"))])

\* C22 amended: of several items, amounts of money, date/time values or
\* date/time intervals the last one gives the fact; a generic number gives
\* the money fact only while there is none, so without an amount of money
\* the first generic number gives it; entities of other names, or of
\* another type, change no fact.
C22_LastWinsFirstNumber ==
    Normalised
        => /\ LastOfKindWins
           /\ (ValuesOf("wit$amount_of_money") = {} /\ ValuesOf("wit$number") # {})
                 => ephemeral.money = MoneyOf(Payload[First(ValuesOf("wit$number"))])

\* two generic numbers, no amount of money and an entity of another name:
\* the first number is the money fact
C22_Witness ==
    /\ Normalised
    /\ \E i \in ValuesOf("wit$number"), j \in ValuesOf("wit$number") :
          /\ i < j /\ Payload[i].value # Payload[j].value
          /\ ephemeral.money = MoneyOf(Payload[i])
    /\ \E k \in 1..Len(Payload) : Payload[k].name = "wit$location"

---------------------------------------------------------------------------
QueryRules == {"query_budget", "query_affordability", "query_summary"}

\* C23: the external calls of a turn come one after the other: no rule is
\* tried before the NLU query has answered; queryExpenses is called at most
\* once in a turn, and only by main's query_budget, query_affordability or
\* query_summary rule; while it is outstanding the rule that called it is
\* the last rule tried.
C23_SequentialCalls ==
    /\ (pc = "wit") => (nlu = None /\ tried = {} /\ messages = <<>> /\ answers = <<>>)
    /\ (tried # {}) => nlu # None
    /\ Len(answers) <= 1
    /\ (pc = "query")
          => /\ answers = <<>>
             /\ query # None
             /\ cur = "main" /\ rule \in QueryRules
             /\ rule = ephemeral.intent
             /\ Fired("main", rule)
             /\ \A i \in TriedInMain : i <= IndexOf("main", rule)
    /\ (answers # <<>>)
          => /\ Done /\ context.state = "main"
             /\ ephemeral.intent \in QueryRules
             /\ Fired("main", ephemeral.intent)
    /\ (pc = "failed" /\ error = "queryExpenses") => (rule \in QueryRules /\ answers = <<>>)

\* the first turn of a user asks for a summary: init's rule and ten rules
\* of main have run, and the ledger has not answered yet
C23_Witness ==
    /\ pc = "query"
    /\ session.state = "init"
    /\ rule = "query_summary"
    /\ Len(messages) = 2
    /\ Cardinality(tried) = 11

---------------------------------------------------------------------------
\* the states a turn can end in
Resting == {"main", "delete_account", "set_budget"} \cup FlowStates
\* the result of the turn, had the NLU service found no intent
WithoutIntent == Alone(session, [nlu[1] EXCEPT !.intents = <<>>], answers)

\* C24: every completed turn, whatever state and facts it started with,
\* ends in main, delete_account, set_budget or a specify_expense state,
\* never in init or add_expense, and so does every context the caller
\* stores.  A turn that starts in a specify_expense state does not depend
\* on the intent: no rule of main is tried and context, messages and
\* actions are those of the same turn without intent; and it ends in main
\* only if it emits an add_expense action.
C24_RestingStates ==
    /\ Done => context.state \in Resting
    /\ session.messageCounter > 0 => session.state \in Resting
    /\ (Done /\ session.state \in FlowStates)
          => /\ TriedInMain = {}
             /\ context = WithoutIntent.context
             /\ messages = WithoutIntent.messages
             /\ actions = WithoutIntent.actions
             /\ context.state \in FlowStates \cup {"main"}
             /\ context.state = "main"
                   => (Len(actions) = 1 /\ actions[1].type = "add_expense")

\* asked for the value of an expense, the user answers with the intent
\* set_budget and an amount: the expense is added, the budget is not set
C24_Witness ==
    /\ Done
    /\ session.state = "specify_expense_value"
    /\ ephemeral.intent = "set_budget"
    /\ ephemeral.money # None
    /\ context.state = "main"
    /\ Len(actions) = 1
    /\ context.budget = session.budget

=============================================================================
